---- MODULE Spec2Model ----
(***************************************************************************)
(* Vaccine supply-chain contracts (raw material, shipment, vaccine batch,  *)
(* vaccine dose) over a composite-keyed world state.  Every contract       *)
(* transaction is one atomic step: it reads the world state, runs the      *)
(* handler, and either writes one record or throws before writing.  A      *)
(* purchase can also be submitted in two steps, simulation and commit, so  *)
(* that transactions overlap.                                              *)
(*                                                                         *)
(* JavaScript values are modelled as integers: NULL stands for both null   *)
(* and undefined (every guard in the contracts uses `!= null`, which       *)
(* treats the two alike); argument values are positive integers.           *)
(* Objects are functions from attribute names to values; reading an        *)
(* attribute an object does not have yields NULL.                          *)
(***************************************************************************)
EXTENDS Integers, Sequences, FiniteSets, TLC

VARIABLES
    ledger,     \* world state: composite key -> serialized record
    deployed,   \* the contract whose chaincode owns this world state, and
                \* which copy of each contract and asset class is installed
    last,       \* the last transaction: [op, key, args, ok]; key and args are
                \* the composite key and the non-key arguments of a create,
                \* <<>> for the other operations
    pending,    \* per client, the purchase it has simulated and not yet
                \* committed: <<>> or <<transaction>>
    client      \* the transaction client program: the position of main, the
                \* state of its gateway and readline interface, the answers
                \* read so far and the steps it has taken

vars == <<ledger, deployed, last, pending, client>>

----------------------------------------------------------------------------
(* Bounds of the model.  The number of keys is bounded; argument values  *)
(* are only copied into records (the one test made on them is `!= null`),  *)
(* so each argument ranges over one or two representative values.          *)

NumManufacturers == 2
NumShipments == 2

Manufacturers == 1..NumManufacturers
BatchNumbers == {1}
Names == {1, 2}                   \* material names
Purchasers == {1, 2}
Providers == {1, 2}               \* shipment providers
Times == {1, 2}                   \* dates and timestamps
Amounts == {1}                    \* quantities, prices, manufacture dates, temperatures, vehicles, operators
Locations == {1}                  \* sources, destinations, current locations
Msps == {1}                       \* MSP ids of the invoking organisations
ShipmentUUIDs == 1..NumShipments
VaccineNames == {1}
Carriers == {1, 2}                \* shipping providers of a vaccine batch
Consignments == {1}               \* shipment UUIDs a vaccine batch is shipped under
VaccineUUIDs == {1, 2}            \* vaccine doses

----------------------------------------------------------------------------
(* JavaScript object helpers                                               *)

NULL == 0

\* obj.f : a missing property reads as undefined
Attr(obj, f) == IF f \in DOMAIN obj THEN obj[f] ELSE NULL

\* obj.f = v
Put(obj, f, v) == [g \in (DOMAIN obj) \cup {f} |-> IF g = f THEN v ELSE obj[g]]

\* Object.assign(target, source)
ObjectAssign(target, source) ==
    [g \in (DOMAIN target) \cup (DOMAIN source) |->
        IF g \in DOMAIN source THEN source[g] ELSE target[g]]

\* A reference returned by the state list: <<>> is null, <<obj>> an object.
NullRef == <<>>
Ref(obj) == <<obj>>

----------------------------------------------------------------------------
(* Ledger API: State and StateList                                         *)

\* State.makeKey / State.splitKey: the ordered key parts
makeKey(keyParts) == keyParts

\* State constructor: type tag and key
StateConstructor(stateClass, keyParts) ==
    [f \in {"class", "key"} |-> IF f = "class" THEN stateClass ELSE makeKey(keyParts)]

\* stub.createCompositeKey(name, parts): namespace followed by the key parts
createCompositeKey(name, parts) == <<name>> \o parts

\* State.serialize / toBuffer: JSON.stringify(this) writes every attribute the
\* object has (strings, numbers and nulls); an attribute that was never set
\* is not in the object and is not written
serialize(obj) == [f \in DOMAIN obj |-> obj[f]]

\* StateList.addState: writes the serialized state under its composite key
addState(L, name, state) ==
    LET key == createCompositeKey(name, state["key"])
    IN  [k \in (DOMAIN L) \cup {key} |-> IF k = key THEN serialize(state) ELSE L[k]]

\* StateList.updateState: writes the serialized state under its composite key
updateState(L, name, state) ==
    LET key == createCompositeKey(name, state["key"])
    IN  [k \in (DOMAIN L) \cup {key} |-> IF k = key THEN serialize(state) ELSE L[k]]

\* Outcome of a transaction: committed with a new world state, or thrown
Commit(L) == [ok |-> TRUE, ledger |-> L]
Throw(L) == [ok |-> FALSE, ledger |-> L]

NoTx == [op |-> "none", key |-> <<>>, args |-> <<>>, ok |-> TRUE]

\* Clients that submit transactions
Clients == {1, 2}

\* No transaction is between simulation and commit
NoPending == [c \in Clients |-> <<>>]

\* No transaction client program is running
NoClient == [program |-> "none"]

\* Commit of a write to a key: every transaction still pending that read the
\* key has a changed read set (stale); every pending transaction that
\* writes the key has been overlapped by this commit
Invalidate(P, key, committed) ==
    [c \in Clients |->
        IF committed /\ P[c] # <<>>
        THEN <<[P[c][1] EXCEPT !.stale = @ \/ key \in P[c][1].reads,
                               !.overlapped = @ \/ key = P[c][1].key]>>
        ELSE P[c]]

\* Attribute f of the serialized record the world state holds at a key
\* (NULL when the key holds no record)
Stored(key, f) == IF key \in DOMAIN ledger THEN Attr(ledger[key], f) ELSE NULL

----------------------------------------------------------------------------
(* Asset classes: type tags and constructors                               *)

RawMaterialClass == "org.vaccine.rawmaterial"

\* RawMaterial constructor with the purchaser defaulting to the manufacturer
RawMaterialConstructorOwned(obj) ==
    LET s0 == StateConstructor(RawMaterialClass, <<Attr(obj, "manufacturer"), Attr(obj, "batchNumber")>>)
        s1 == ObjectAssign(s0, obj)
        s2 == Put(s1, "purchaser", Attr(obj, "manufacturer"))
        s3 == Put(s2, "purchaseDate", NULL)
        s4 == Put(s3, "price", NULL)
        s5 == Put(s4, "dateMixedIn", NULL)
    IN  Put(s5, "mspid", NULL)

\* RawMaterial constructor
RawMaterialConstructor(obj) ==
    LET s0 == StateConstructor(RawMaterialClass, <<Attr(obj, "manufacturer"), Attr(obj, "batchNumber")>>)
        s1 == ObjectAssign(s0, obj)
        s2 == Put(s1, "purchaser", NULL)
        s3 == Put(s2, "purchaseDate", NULL)
        s4 == Put(s3, "price", NULL)
        s5 == Put(s4, "dateMixedIn", NULL)
    IN  Put(s5, "mspid", NULL)

ShipmentClass == "org.vaccine.shipment"

\* shipmentState enumeration
LEFTSOURCE == 1
ARRIVEDDEST == 2

\* Shipment constructor, manufacturer copy of shipment.js
ShipmentConstructor(obj) ==
    LET s0 == StateConstructor(ShipmentClass, <<Attr(obj, "shipmentUUID")>>)
        s1 == ObjectAssign(s0, obj)
        s2 == Put(s1, "vehicleUUID", NULL)
        s3 == Put(s2, "vehicleOperator", NULL)
        s4 == Put(s3, "currentLocation", NULL)
        s5 == Put(s4, "currentTemp", NULL)
        s6 == Put(s5, "timestamp", NULL)
        s7 == Put(s6, "shipDateTime", NULL)
        s8 == Put(s7, "arrivalDateTime", NULL)
    IN  Put(s8, "mspid", NULL)

\* Shipment constructor, distributor copy of shipment.js
ShipmentConstructorDistributor(obj) ==
    LET s0 == StateConstructor(ShipmentClass, <<Attr(obj, "shipmentUUID")>>)
        s1 == ObjectAssign(s0, obj)
        s2 == Put(s1, "vehicleUUID", NULL)
        s3 == Put(s2, "vehicleOperator", NULL)
        s4 == Put(s3, "currentLocation", NULL)
        s5 == Put(s4, "currentTemp", NULL)
        s6 == Put(s5, "tempTimestamp", NULL)
        s7 == Put(s6, "shipDate", NULL)
    IN  Put(s7, "arrivalDate", NULL)

VaccineBatchClass == "org.vaccine.vaccineBatch"

\* batchState enumeration
SHIPPED == 1
ARRIVED == 2
ISSUED == 3
WAREHOUSED == 4

\* JavaScript false, and the JSON form {} of an empty Set
JSFalse == -1
EmptyObject == -2

\* The common part of both VaccineBatch constructors: the unknowns set to null
VaccineBatchUnknowns(s1) ==
    LET s2 == Put(s1, "purchaseDate", NULL)
        s3 == Put(s2, "currentState", NULL)
        s4 == Put(s3, "approver", NULL)
        s5 == Put(s4, "shippingProvider", NULL)
        s6 == Put(s5, "shipmentUUID", NULL)
        s7 == Put(s6, "temperature", NULL)
        s8 == Put(s7, "timestamp", NULL)
    IN  Put(s8, "entityAllocated", NULL)

\* VaccineBatch constructor, copy in which the manufacturer is the first owner
VaccineBatchConstructor(obj) ==
    LET s0 == StateConstructor(VaccineBatchClass, <<Attr(obj, "batchNumber"), Attr(obj, "manufacturer")>>)
        s1 == Put(ObjectAssign(s0, obj), "purchaser", Attr(obj, "manufacturer"))
        s2 == VaccineBatchUnknowns(s1)
    IN  Put(Put(s2, "ready", JSFalse), "rawMaterialBatchSet", EmptyObject)

\* VaccineBatch constructor, copy in which the purchaser starts as null
VaccineBatchConstructorUnowned(obj) ==
    LET s0 == StateConstructor(VaccineBatchClass, <<Attr(obj, "batchNumber"), Attr(obj, "manufacturer")>>)
        s1 == Put(ObjectAssign(s0, obj), "purchaser", NULL)
    IN  VaccineBatchUnknowns(s1)

VaccineClass == "org.vaccine.vaccine"

\* vaccineState enumeration; ISSUED is 2 for a dose
READY == 1
VaccineISSUED == 2
EXPIRED == 3

\* Vaccine constructor
VaccineConstructor(obj) ==
    LET s0 == StateConstructor(VaccineClass, <<Attr(obj, "vaccineUUID")>>)
        s1 == ObjectAssign(s0, obj)
        s2 == Put(s1, "issueDateTime", NULL)
        s3 == Put(s2, "currentState", NULL)
        s4 == Put(s3, "issuer", NULL)
    IN  Put(s4, "recipient", NULL)

\* State.deserializeClass(data, objClass): parses the JSON and builds an
\* instance of objClass from it with the constructor of that class
deserializeClass(data, objClass) ==
    CASE objClass = "RawMaterial" -> RawMaterialConstructor(data)
      [] objClass = "Shipment" -> ShipmentConstructor(data)
      [] objClass = "ShipmentDistributor" -> ShipmentConstructorDistributor(data)
      [] objClass = "VaccineBatch" -> VaccineBatchConstructor(data)
      [] objClass = "VaccineBatchUnowned" -> VaccineBatchConstructorUnowned(data)
      [] objClass = "Vaccine" -> VaccineConstructor(data)

----------------------------------------------------------------------------
(* Raw material                                                            *)

\* RawMaterial.createInstance
RawMaterialCreateInstance(materialName, batchNumber, quantity, manufacturer, manufactureDate) ==
    RawMaterialConstructor(
        [f \in {"materialName", "batchNumber", "quantity", "manufacturer", "manufactureDate"} |->
            CASE f = "materialName" -> materialName
              [] f = "batchNumber" -> batchNumber
              [] f = "quantity" -> quantity
              [] f = "manufacturer" -> manufacturer
              [] f = "manufactureDate" -> manufactureDate])

\* A deserialization that restores the stored purchaser after construction
RawMaterialDeserializeKeepingPurchaser(data) ==
    Put(deserializeClass(data, "RawMaterial"), "purchaser", Attr(data, "purchaser"))

\* RawMaterial.deserialize
RawMaterialDeserialize(data) == deserializeClass(data, "RawMaterial")

\* RawMaterialList.getRawMaterial: null when the key holds no data
getRawMaterial(L, materialKey) ==
    LET ledgerKey == createCompositeKey(RawMaterialClass, materialKey)
    IN  IF ledgerKey \in DOMAIN L THEN Ref(RawMaterialDeserialize(L[ledgerKey])) ELSE NullRef

\* RawMaterialContract.createMaterial, first copy of the contract
createMaterialV1(L, mspid, materialName, batchNumber, quantity, manufacturer, manufactureDate) ==
    LET primaryKey == makeKey(<<manufacturer, batchNumber>>)
        found == getRawMaterial(L, primaryKey)
    IN  IF found # NullRef /\ "length" \in DOMAIN found[1] /\ found[1]["length"] > 0
        THEN Throw(L)
        ELSE LET material == RawMaterialCreateInstance(materialName, batchNumber, quantity, manufacturer, manufactureDate)
             IN  Commit(addState(L, RawMaterialClass, Put(material, "mspid", mspid)))

\* RawMaterialContract.createMaterial, second copy of the contract
createMaterialV2(L, mspid, materialName, batchNumber, quantity, manufacturer, manufactureDate) ==
    LET material == RawMaterialCreateInstance(materialName, batchNumber, quantity, manufacturer, manufactureDate)
    IN  Commit(addState(L, RawMaterialClass, Put(material, "mspid", mspid)))

\* A purchase that also transfers the manufacturer attribute to the purchaser
purchaseBodyTransfer(L, mspid, material, purchaser, price, purchaseDateTime) ==
    IF Attr(material, "purchaser") # NULL
    THEN Throw(L)
    ELSE LET m0 == Put(material, "manufacturer", purchaser)
             m1 == Put(m0, "purchaser", purchaser)
             m2 == Put(m1, "purchaseDate", purchaseDateTime)
             m3 == Put(m2, "price", price)
             m4 == Put(m3, "mspid", mspid)
         IN  Commit(updateState(L, RawMaterialClass, m4))

\* The purchase itself, common to both copies: guard, setters, update
purchaseBody(L, mspid, material, purchaser, price, purchaseDateTime) ==
    IF Attr(material, "purchaser") # NULL
    THEN Throw(L)
    ELSE LET m1 == Put(material, "purchaser", purchaser)
             m2 == Put(m1, "purchaseDate", purchaseDateTime)
             m3 == Put(m2, "price", price)
             m4 == Put(m3, "mspid", mspid)
         IN  Commit(updateState(L, RawMaterialClass, m4))

\* RawMaterialContract.purchaseMaterial, first copy: checks that the material exists
purchaseMaterialV1(L, mspid, manufacturer, batchNumber, purchaser, price, purchaseDateTime) ==
    LET primaryKey == makeKey(<<manufacturer, batchNumber>>)
        found == getRawMaterial(L, primaryKey)
    IN  IF found = NullRef \/ ("length" \in DOMAIN found[1] /\ found[1]["length"] = 0)
        THEN Throw(L)
        ELSE purchaseBody(L, mspid, found[1], purchaser, price, purchaseDateTime)

\* RawMaterialContract.purchaseMaterial, second copy: calling getPurchaser on
\* null throws a TypeError
purchaseMaterialV2(L, mspid, manufacturer, batchNumber, purchaser, price, purchaseDateTime) ==
    LET primaryKey == makeKey(<<manufacturer, batchNumber>>)
        found == getRawMaterial(L, primaryKey)
    IN  IF found = NullRef
        THEN Throw(L)
        ELSE purchaseBody(L, mspid, found[1], purchaser, price, purchaseDateTime)

\* addMaterial that files a new record when the key holds none
addMaterialUpsert(L, manufacturer, batchNumber, dateTimeAdded) ==
    LET primaryKey == makeKey(<<manufacturer, batchNumber>>)
        found == getRawMaterial(L, primaryKey)
        fresh == RawMaterialCreateInstance(NULL, batchNumber, NULL, manufacturer, NULL)
    IN  IF found = NullRef
        THEN Commit(updateState(L, RawMaterialClass, Put(fresh, "dateMixedIn", dateTimeAdded)))
        ELSE IF Attr(found[1], "dateMixedIn") # NULL
        THEN Throw(L)
        ELSE Commit(updateState(L, RawMaterialClass, Put(found[1], "dateMixedIn", dateTimeAdded)))

\* RawMaterialContract.addMaterial (the same in both copies)
addMaterial(L, manufacturer, batchNumber, dateTimeAdded) ==
    LET primaryKey == makeKey(<<manufacturer, batchNumber>>)
        found == getRawMaterial(L, primaryKey)
    IN  IF found = NullRef
        THEN Throw(L)
        ELSE IF Attr(found[1], "dateMixedIn") # NULL
        THEN Throw(L)
        ELSE Commit(updateState(L, RawMaterialClass, Put(found[1], "dateMixedIn", dateTimeAdded)))

MaterialKey(manufacturer, batchNumber) ==
    createCompositeKey(RawMaterialClass, makeKey(<<manufacturer, batchNumber>>))

\* createMaterial transaction
CreateMaterial(mspid, materialName, batchNumber, quantity, manufacturer, manufactureDate) ==
    LET r == IF deployed.rawmaterial = 1
             THEN createMaterialV1(ledger, mspid, materialName, batchNumber, quantity, manufacturer, manufactureDate)
             ELSE createMaterialV2(ledger, mspid, materialName, batchNumber, quantity, manufacturer, manufactureDate)
    IN  /\ deployed.contract = "rawmaterial"
        /\ ledger' = r.ledger
        /\ last' = [op |-> "createMaterial", key |-> MaterialKey(manufacturer, batchNumber),
                    args |-> <<materialName, quantity, manufactureDate>>, ok |-> r.ok]
        /\ UNCHANGED <<deployed, client>>
        /\ pending' = Invalidate(pending, MaterialKey(manufacturer, batchNumber), r.ok)

\* purchaseMaterial transaction
PurchaseMaterial(mspid, manufacturer, batchNumber, purchaser, price, purchaseDateTime) ==
    LET r == IF deployed.rawmaterial = 1
             THEN purchaseMaterialV1(ledger, mspid, manufacturer, batchNumber, purchaser, price, purchaseDateTime)
             ELSE purchaseMaterialV2(ledger, mspid, manufacturer, batchNumber, purchaser, price, purchaseDateTime)
    IN  /\ deployed.contract = "rawmaterial"
        /\ ledger' = r.ledger
        /\ last' = [op |-> "purchaseMaterial", key |-> <<>>, args |-> <<>>, ok |-> r.ok]
        /\ UNCHANGED <<deployed, client>>
        /\ pending' = Invalidate(pending, MaterialKey(manufacturer, batchNumber), r.ok)

\* addMaterial transaction
AddMaterial(manufacturer, batchNumber, dateTimeAdded) ==
    LET r == addMaterial(ledger, manufacturer, batchNumber, dateTimeAdded)
    IN  /\ deployed.contract = "rawmaterial"
        /\ ledger' = r.ledger
        /\ last' = [op |-> "addMaterial", key |-> <<>>, args |-> <<>>, ok |-> r.ok]
        /\ UNCHANGED <<deployed, client>>
        /\ pending' = Invalidate(pending, MaterialKey(manufacturer, batchNumber), r.ok)

InitMaterial ==
    /\ ledger = <<>>
    /\ deployed \in {[contract |-> "rawmaterial", rawmaterial |-> v, shipment |-> "manufacturer", vaccinebatch |-> 1] : v \in {1, 2}}
    /\ last = NoTx
    /\ pending = NoPending
    /\ client = NoClient

NextMaterial ==
    \/ \E mspid \in Msps, n \in Names, b \in BatchNumbers, q \in Amounts, m \in Manufacturers, d \in Amounts :
            CreateMaterial(mspid, n, b, q, m, d)
    \/ \E mspid \in Msps, m \in Manufacturers, b \in BatchNumbers, p \in Purchasers, price \in Amounts, t \in Times :
            PurchaseMaterial(mspid, m, b, p, price, t)
    \/ \E m \in Manufacturers, b \in BatchNumbers, t \in Times :
            AddMaterial(m, b, t)

SpecMaterial == InitMaterial /\ [][NextMaterial]_vars

\* The raw material stored at the key of the last transaction, as a fetch returns it
LastMaterial == getRawMaterial(ledger, <<last.key[2], last.key[3]>>)

(* C1: a purchaseMaterial on a raw material whose stored purchaser is      *)
(* already set (a second purchase) fails and leaves the stored record,     *)
(* with its purchaser, purchaseDate and price, as the first purchase left  *)
(* it.                                                                     *)
C1_SecondPurchaseFails ==
    [][\A mspid \in Msps, m \in Manufacturers, b \in BatchNumbers, p \in Purchasers, price \in Amounts, t \in Times :
          (PurchaseMaterial(mspid, m, b, p, price, t) /\ Stored(MaterialKey(m, b), "purchaser") # NULL)
              => (~last'.ok /\ ledger' = ledger)]_vars

(* C2: after a successful createMaterial, fetching the key (manufacturer,  *)
(* batchNumber) returns a record with purchaser = null, dateMixedIn = null *)
(* and the five supplied fields equal to the arguments.                    *)
C2_CreateThenFetch ==
    (last.op = "createMaterial" /\ last.ok) =>
        /\ LastMaterial # NullRef
        /\ Attr(LastMaterial[1], "purchaser") = NULL
        /\ Attr(LastMaterial[1], "dateMixedIn") = NULL
        /\ Attr(LastMaterial[1], "materialName") = last.args[1]
        /\ Attr(LastMaterial[1], "batchNumber") = last.key[3]
        /\ Attr(LastMaterial[1], "quantity") = last.args[2]
        /\ Attr(LastMaterial[1], "manufacturer") = last.key[2]
        /\ Attr(LastMaterial[1], "manufactureDate") = last.args[3]

\* A material named 2 was created for manufacturer 1 and is held at its key
C2_Witness ==
    /\ last.op = "createMaterial" /\ last.ok
    /\ last.key = MaterialKey(1, 1) /\ last.args[1] = 2
    /\ last.key \in DOMAIN ledger
    /\ ledger[last.key]["materialName"] = 2

(* C4: createMaterial for a key at which a raw material already exists is  *)
(* rejected, and the stored raw material is unchanged.                     *)
C4_CreateExistingRejected ==
    [][\A mspid \in Msps, n \in Names, b \in BatchNumbers, q \in Amounts, m \in Manufacturers, d \in Amounts :
          (CreateMaterial(mspid, n, b, q, m, d) /\ MaterialKey(m, b) \in DOMAIN ledger)
              => (~last'.ok /\ ledger' = ledger)]_vars

(* C12: addMaterial on a raw material whose stored dateMixedIn is null sets *)
(* dateMixedIn to the given date; an addMaterial on a raw material whose   *)
(* stored dateMixedIn is already set fails and leaves dateMixedIn at the   *)
(* first value.                                                            *)
C12_AddExactlyOnce ==
    [][\A m \in Manufacturers, b \in BatchNumbers, t \in Times :
          (AddMaterial(m, b, t) /\ MaterialKey(m, b) \in DOMAIN ledger)
              => IF Stored(MaterialKey(m, b), "dateMixedIn") = NULL
                 THEN /\ last'.ok
                      /\ Attr(ledger'[MaterialKey(m, b)], "dateMixedIn") = t
                 ELSE /\ ~last'.ok
                      /\ Attr(ledger'[MaterialKey(m, b)], "dateMixedIn") = Stored(MaterialKey(m, b), "dateMixedIn")]_vars

(* C13: mixed-in is terminal: once a stored raw material has a non-null    *)
(* dateMixedIn, no createMaterial, purchaseMaterial or addMaterial changes *)
(* any field of that record.                                               *)
C13_MixedInIsTerminal ==
    [][\A m \in Manufacturers, b \in BatchNumbers :
          Stored(MaterialKey(m, b), "dateMixedIn") # NULL
              => /\ MaterialKey(m, b) \in DOMAIN ledger'
                 /\ ledger'[MaterialKey(m, b)] = ledger[MaterialKey(m, b)]]_vars

(* C14: every stored raw material with a non-null dateMixedIn has a        *)
(* non-null purchaser (a material is purchased before it is mixed in).     *)
C14_MixedInImpliesPurchased ==
    \A m \in Manufacturers, b \in BatchNumbers :
        Stored(MaterialKey(m, b), "dateMixedIn") # NULL => Stored(MaterialKey(m, b), "purchaser") # NULL

----------------------------------------------------------------------------
(* Shipment                                                                *)

\* The methods of the Shipment class that the contract calls
ShipmentMethods(variant) ==
    {"setVehicleUUID", "setVehicleOperator", "setCurrentLocation", "setCurrentTemp",
     "setLeftSource", "setArrivedDest"}
    \cup (IF variant = "manufacturer"
          THEN {"setTimestamp", "setShipDateTime", "getShipDateTime",
                "setArrivalDateTime", "getArrivalDateTime"}
          ELSE {"setTempTimestamp", "setShipDate", "getShipDate",
                "setArrivalDate", "getArrivalDate"})

\* Shipment.createInstance with the provider and the source interchanged
ShipmentCreateInstanceSwapped(variant, shipmentUUID, shipmentProvider, source, destination) ==
    LET obj == [f \in {"shipmentUUID", "shipmentProvider", "source", "destination"} |->
                    CASE f = "shipmentUUID" -> shipmentUUID
                      [] f = "shipmentProvider" -> source
                      [] f = "source" -> shipmentProvider
                      [] f = "destination" -> destination]
    IN  IF variant = "manufacturer" THEN ShipmentConstructor(obj)
        ELSE ShipmentConstructorDistributor(obj)

\* Shipment.createInstance
ShipmentCreateInstance(variant, shipmentUUID, shipmentProvider, source, destination) ==
    LET obj == [f \in {"shipmentUUID", "shipmentProvider", "source", "destination"} |->
                    CASE f = "shipmentUUID" -> shipmentUUID
                      [] f = "shipmentProvider" -> shipmentProvider
                      [] f = "source" -> source
                      [] f = "destination" -> destination]
    IN  IF variant = "manufacturer" THEN ShipmentConstructor(obj)
        ELSE ShipmentConstructorDistributor(obj)

\* Shipment.deserialize
ShipmentDeserialize(variant, data) ==
    IF variant = "manufacturer" THEN deserializeClass(data, "Shipment")
    ELSE deserializeClass(data, "ShipmentDistributor")

\* ShipmentList.getShipment: null when the key holds no data
getShipment(L, variant, shipmentKey) ==
    LET ledgerKey == createCompositeKey(ShipmentClass, shipmentKey)
    IN  IF ledgerKey \in DOMAIN L THEN Ref(ShipmentDeserialize(variant, L[ledgerKey])) ELSE NullRef

\* ShipmentContract.orderShipment
orderShipment(L, variant, shipmentUUID, shipmentProvider, source, destination) ==
    LET shipment == ShipmentCreateInstance(variant, shipmentUUID, shipmentProvider, source, destination)
    IN  Commit(addState(L, ShipmentClass, shipment))

\* ShipmentContract.shipShipment; calling a method on null, or a method the
\* Shipment class does not define, throws a TypeError before the update
shipShipment(L, variant, shipmentUUID, vehicleUUID, source, timestamp, vehicleOperator, currentTemp) ==
    LET primaryKey == makeKey(<<shipmentUUID>>)
        found == getShipment(L, variant, primaryKey)
    IN  IF found = NullRef \/ "getShipDateTime" \notin ShipmentMethods(variant)
        THEN Throw(L)
        ELSE IF Attr(found[1], "shipDateTime") # NULL
        THEN Throw(L)
        ELSE IF ~ ({"setLeftSource", "setShipDateTime", "setVehicleUUID", "setVehicleOperator",
                    "setCurrentLocation", "setCurrentTemp", "setTimestamp"} \subseteq ShipmentMethods(variant))
        THEN Throw(L)
        ELSE LET s1 == Put(found[1], "currentState", LEFTSOURCE)
                 s2 == Put(s1, "shipDateTime", timestamp)
                 s3 == Put(s2, "vehicleUUID", vehicleUUID)
                 s4 == Put(s3, "vehicleOperator", vehicleOperator)
                 s5 == Put(s4, "currentLocation", source)
                 s6 == Put(s5, "currentTemp", currentTemp)
                 s7 == Put(s6, "timestamp", timestamp)
             IN  Commit(updateState(L, ShipmentClass, s7))

\* ShipmentContract.updateLocationTemp
updateLocationTemp(L, variant, shipmentUUID, timestamp, currentLocation, currentTemp) ==
    LET primaryKey == makeKey(<<shipmentUUID>>)
        found == getShipment(L, variant, primaryKey)
    IN  IF found = NullRef
        THEN Throw(L)
        ELSE IF ~ ({"setCurrentLocation", "setCurrentTemp", "setTimestamp"} \subseteq ShipmentMethods(variant))
        THEN Throw(L)
        ELSE LET s1 == Put(found[1], "currentLocation", currentLocation)
                 s2 == Put(s1, "currentTemp", currentTemp)
                 s3 == Put(s2, "timestamp", timestamp)
             IN  Commit(updateState(L, ShipmentClass, s3))

\* shipmentArrival that files the arrived record under shipment 1
shipmentArrivalMisfiled(L, variant, shipmentUUID, timestamp) ==
    LET primaryKey == makeKey(<<shipmentUUID>>)
        found == getShipment(L, variant, primaryKey)
    IN  IF found = NullRef \/ "getArrivalDateTime" \notin ShipmentMethods(variant)
        THEN Throw(L)
        ELSE IF Attr(found[1], "arrivalDateTime") # NULL
        THEN Throw(L)
        ELSE LET s1 == Put(found[1], "currentState", ARRIVEDDEST)
                 s2 == Put(s1, "arrivalDateTime", timestamp)
             IN  Commit(updateState(L, ShipmentClass, Put(s2, "key", makeKey(<<1>>))))

\* ShipmentContract.shipmentArrival
shipmentArrival(L, variant, shipmentUUID, timestamp) ==
    LET primaryKey == makeKey(<<shipmentUUID>>)
        found == getShipment(L, variant, primaryKey)
    IN  IF found = NullRef \/ "getArrivalDateTime" \notin ShipmentMethods(variant)
        THEN Throw(L)
        ELSE IF Attr(found[1], "arrivalDateTime") # NULL
        THEN Throw(L)
        ELSE IF ~ ({"setArrivedDest", "setArrivalDateTime"} \subseteq ShipmentMethods(variant))
        THEN Throw(L)
        ELSE LET s1 == Put(found[1], "currentState", ARRIVEDDEST)
                 s2 == Put(s1, "arrivalDateTime", timestamp)
             IN  Commit(updateState(L, ShipmentClass, s2))

ShipmentKey(shipmentUUID) == createCompositeKey(ShipmentClass, makeKey(<<shipmentUUID>>))

\* orderShipment transaction
OrderShipment(shipmentUUID, shipmentProvider, source, destination) ==
    LET r == orderShipment(ledger, deployed.shipment, shipmentUUID, shipmentProvider, source, destination)
    IN  /\ deployed.contract = "shipment"
        /\ ledger' = r.ledger
        /\ last' = [op |-> "orderShipment", key |-> ShipmentKey(shipmentUUID),
                    args |-> <<shipmentProvider, source, destination>>, ok |-> r.ok]
        /\ UNCHANGED deployed
        /\ UNCHANGED <<pending, client>>

\* shipShipment transaction
ShipShipment(shipmentUUID, vehicleUUID, source, timestamp, vehicleOperator, currentTemp) ==
    LET r == shipShipment(ledger, deployed.shipment, shipmentUUID, vehicleUUID, source, timestamp,
                          vehicleOperator, currentTemp)
    IN  /\ deployed.contract = "shipment"
        /\ ledger' = r.ledger
        /\ last' = [op |-> "shipShipment", key |-> <<>>, args |-> <<>>, ok |-> r.ok]
        /\ UNCHANGED deployed
        /\ UNCHANGED <<pending, client>>

\* updateLocationTemp transaction
UpdateLocationTemp(shipmentUUID, timestamp, currentLocation, currentTemp) ==
    LET r == updateLocationTemp(ledger, deployed.shipment, shipmentUUID, timestamp, currentLocation, currentTemp)
    IN  /\ deployed.contract = "shipment"
        /\ ledger' = r.ledger
        /\ last' = [op |-> "updateLocationTemp", key |-> <<>>, args |-> <<>>, ok |-> r.ok]
        /\ UNCHANGED deployed
        /\ UNCHANGED <<pending, client>>

\* shipmentArrival transaction
ShipmentArrival(shipmentUUID, timestamp) ==
    LET r == shipmentArrival(ledger, deployed.shipment, shipmentUUID, timestamp)
    IN  /\ deployed.contract = "shipment"
        /\ ledger' = r.ledger
        /\ last' = [op |-> "shipmentArrival", key |-> <<>>, args |-> <<>>, ok |-> r.ok]
        /\ UNCHANGED deployed
        /\ UNCHANGED <<pending, client>>

InitShipment ==
    /\ ledger = <<>>
    /\ deployed \in {[contract |-> "shipment", rawmaterial |-> 2, shipment |-> v, vaccinebatch |-> 1] : v \in {"manufacturer", "distributor"}}
    /\ last = NoTx
    /\ pending = NoPending
    /\ client = NoClient

NextShipment ==
    \/ \E u \in ShipmentUUIDs, p \in Providers, src \in Locations, dst \in Locations :
            OrderShipment(u, p, src, dst)
    \/ \E u \in ShipmentUUIDs, veh \in Amounts, src \in Locations, t \in Times, o \in Amounts, temp \in Amounts :
            ShipShipment(u, veh, src, t, o, temp)
    \/ \E u \in ShipmentUUIDs, t \in Times, loc \in Locations, temp \in Amounts :
            UpdateLocationTemp(u, t, loc, temp)
    \/ \E u \in ShipmentUUIDs, t \in Times :
            ShipmentArrival(u, t)

SpecShipment == InitShipment /\ [][NextShipment]_vars

(* C3: creating an asset (here orderShipment) at a composite key that      *)
(* already holds a record fails, and the record stored at that key is      *)
(* unchanged.                                                              *)
C3_CreateOverExistingFails ==
    [][\A u \in ShipmentUUIDs, p \in Providers, src \in Locations, dst \in Locations :
          (OrderShipment(u, p, src, dst) /\ ShipmentKey(u) \in DOMAIN ledger)
              => (~last'.ok /\ ledger' = ledger)]_vars

(* C5: shipShipment on an ordered shipment whose shipDateTime is null sets *)
(* shipDateTime to the given timestamp and currentState to LEFTSOURCE; a   *)
(* shipShipment on a shipment whose shipDateTime is already set fails and  *)
(* leaves the stored record as the first call set it.                      *)
C5_ShipExactlyOnce ==
    [][\A u \in ShipmentUUIDs, veh \in Amounts, src \in Locations, t \in Times, o \in Amounts, temp \in Amounts :
          (ShipShipment(u, veh, src, t, o, temp) /\ ShipmentKey(u) \in DOMAIN ledger)
              => IF Stored(ShipmentKey(u), "shipDateTime") = NULL
                 THEN /\ last'.ok
                      /\ Attr(ledger'[ShipmentKey(u)], "shipDateTime") = t
                      /\ Attr(ledger'[ShipmentKey(u)], "currentState") = LEFTSOURCE
                 ELSE ~last'.ok /\ ledger' = ledger]_vars

(* C6: shipmentArrival on a shipped shipment whose arrivalDateTime is null *)
(* sets arrivalDateTime to the given timestamp and currentState to         *)
(* ARRIVEDDEST; a shipmentArrival on a shipment whose arrivalDateTime is   *)
(* already set fails and leaves arrivalDateTime and currentState           *)
(* unchanged.                                                              *)
C6_ArriveExactlyOnce ==
    [][\A u \in ShipmentUUIDs, t \in Times :
          (ShipmentArrival(u, t) /\ ShipmentKey(u) \in DOMAIN ledger)
              => /\ (Stored(ShipmentKey(u), "shipDateTime") # NULL /\ Stored(ShipmentKey(u), "arrivalDateTime") = NULL)
                        => /\ last'.ok
                           /\ Attr(ledger'[ShipmentKey(u)], "arrivalDateTime") = t
                           /\ Attr(ledger'[ShipmentKey(u)], "currentState") = ARRIVEDDEST
                 /\ Stored(ShipmentKey(u), "arrivalDateTime") # NULL
                        => /\ ~last'.ok
                           /\ Attr(ledger'[ShipmentKey(u)], "arrivalDateTime") = Stored(ShipmentKey(u), "arrivalDateTime")
                           /\ Attr(ledger'[ShipmentKey(u)], "currentState") = Stored(ShipmentKey(u), "currentState")]_vars

(* C7: every stored shipment with a non-null arrivalDateTime also has a    *)
(* non-null shipDateTime.                                                  *)
C7_ArrivedImpliesShipped ==
    \A u \in ShipmentUUIDs :
        Stored(ShipmentKey(u), "arrivalDateTime") # NULL => Stored(ShipmentKey(u), "shipDateTime") # NULL

(* C8: ARRIVEDDEST is terminal: once a stored shipment has currentState =  *)
(* ARRIVEDDEST no transaction changes its currentState.                    *)
C8_ArrivedIsTerminal ==
    [][\A u \in ShipmentUUIDs :
          Stored(ShipmentKey(u), "currentState") = ARRIVEDDEST
              => /\ ShipmentKey(u) \in DOMAIN ledger'
                 /\ Attr(ledger'[ShipmentKey(u)], "currentState") = ARRIVEDDEST]_vars

(* C9: immediately after orderShipment the stored shipment has             *)
(* shipDateTime = null and arrivalDateTime = null, and shipmentProvider,   *)
(* source and destination equal to the arguments.                          *)
C9_OrderedShipment ==
    (last.op = "orderShipment" /\ last.ok) =>
        /\ last.key \in DOMAIN ledger
        /\ Stored(last.key, "shipDateTime") = NULL
        /\ Stored(last.key, "arrivalDateTime") = NULL
        /\ Stored(last.key, "shipmentProvider") = last.args[1]
        /\ Stored(last.key, "source") = last.args[2]
        /\ Stored(last.key, "destination") = last.args[3]

\* Shipment 1 was ordered from provider 2 and is held at its key
C9_Witness ==
    /\ last.op = "orderShipment" /\ last.ok
    /\ last.key = ShipmentKey(1) /\ last.args[1] = 2
    /\ last.key \in DOMAIN ledger
    /\ ledger[last.key]["shipmentUUID"] = 1

(* C10: shipDateTime is write-once: once the stored shipDateTime of a      *)
(* shipment key is non-null, no transaction changes it or resets it to     *)
(* null.                                                                   *)
C10_ShipDateWriteOnce ==
    [][\A u \in ShipmentUUIDs :
          Stored(ShipmentKey(u), "shipDateTime") # NULL
              => /\ ShipmentKey(u) \in DOMAIN ledger'
                 /\ Attr(ledger'[ShipmentKey(u)], "shipDateTime") = Stored(ShipmentKey(u), "shipDateTime")]_vars

(* C11: updateLocationTemp on an existing shipment succeeds, however often *)
(* it is applied, and leaves currentState, shipDateTime, arrivalDateTime,  *)
(* vehicleUUID, vehicleOperator, shipmentProvider, source and destination  *)
(* of the stored record unchanged.                                         *)
C11_UpdateFrame ==
    [][\A u \in ShipmentUUIDs, t \in Times, loc \in Locations, temp \in Amounts :
          (UpdateLocationTemp(u, t, loc, temp) /\ ShipmentKey(u) \in DOMAIN ledger)
              => /\ last'.ok
                 /\ \A f \in {"currentState", "shipDateTime", "arrivalDateTime", "vehicleUUID",
                               "vehicleOperator", "shipmentProvider", "source", "destination"} :
                        Attr(ledger'[ShipmentKey(u)], f) = Stored(ShipmentKey(u), f)]_vars

----------------------------------------------------------------------------
(* Vaccine batch                                                           *)

\* VaccineBatch.createInstance
VaccineBatchCreateInstance(variant, vaccineName, batchNumber, quantity, manufacturer, manufactureDate) ==
    LET obj == [f \in {"vaccineName", "batchNumber", "quantity", "manufacturer", "manufactureDate"} |->
                    CASE f = "vaccineName" -> vaccineName
                      [] f = "batchNumber" -> batchNumber
                      [] f = "quantity" -> quantity
                      [] f = "manufacturer" -> manufacturer
                      [] f = "manufactureDate" -> manufactureDate]
    IN  IF variant = 1 THEN VaccineBatchConstructor(obj) ELSE VaccineBatchConstructorUnowned(obj)

\* VaccineBatch.deserialize
VaccineBatchDeserialize(variant, data) ==
    IF variant = 1 THEN deserializeClass(data, "VaccineBatch")
    ELSE deserializeClass(data, "VaccineBatchUnowned")

\* VaccineBatchList.getVaccineBatch: null when the key holds no data
getVaccineBatch(L, variant, vaccineBatchKey) ==
    LET ledgerKey == createCompositeKey(VaccineBatchClass, vaccineBatchKey)
    IN  IF ledgerKey \in DOMAIN L THEN Ref(VaccineBatchDeserialize(variant, L[ledgerKey])) ELSE NullRef

\* VaccineBatchContract.issue
issue(L, variant, mspid, vaccineName, batchNumber, quantity, manufacturer, manufactureDate) ==
    LET b0 == VaccineBatchCreateInstance(variant, vaccineName, batchNumber, quantity, manufacturer, manufactureDate)
        b1 == Put(b0, "currentState", WAREHOUSED)
        b2 == Put(b1, "mspid", mspid)
    IN  Commit(addState(L, VaccineBatchClass, b2))

\* VaccineBatchContract.buy; calling getPurchaser on null throws a TypeError
buy(L, variant, batchNumber, manufacturer, currentOwner, newOwner, price, purchaseDateTime) ==
    LET vaccineBatchKey == makeKey(<<batchNumber, manufacturer>>)
        found == getVaccineBatch(L, variant, vaccineBatchKey)
    IN  IF found = NullRef
        THEN Throw(L)
        ELSE IF Attr(found[1], "purchaser") # currentOwner
        THEN Throw(L)
        ELSE LET b1 == Put(found[1], "purchaser", newOwner)
                 b2 == Put(b1, "purchaseDate", purchaseDateTime)
                 b3 == Put(b2, "price", price)
             IN  Commit(updateState(L, VaccineBatchClass, b3))

\* VaccineBatchContract.ship
ship(L, variant, batchNumber, manufacturer, shippingProvider, shipmentUUID) ==
    LET vaccineBatchKey == makeKey(<<batchNumber, manufacturer>>)
        found == getVaccineBatch(L, variant, vaccineBatchKey)
    IN  IF found = NullRef
        THEN Throw(L)
        ELSE LET b1 == Put(found[1], "shippingProvider", shippingProvider)
                 b2 == Put(b1, "shipmentUUID", shipmentUUID)
                 b3 == Put(b2, "currentState", SHIPPED)
             IN  Commit(updateState(L, VaccineBatchClass, b3))

\* VaccineBatchContract.arrived (arrivalDate is not used)
arrived(L, variant, batchNumber, manufacturer, arrivalDate) ==
    LET vaccineBatchKey == makeKey(<<batchNumber, manufacturer>>)
        found == getVaccineBatch(L, variant, vaccineBatchKey)
    IN  IF found = NullRef
        THEN Throw(L)
        ELSE Commit(updateState(L, VaccineBatchClass, Put(found[1], "currentState", ARRIVED)))

BatchKey(batchNumber, manufacturer) ==
    createCompositeKey(VaccineBatchClass, makeKey(<<batchNumber, manufacturer>>))

\* issue transaction
Issue(mspid, vaccineName, batchNumber, quantity, manufacturer, manufactureDate) ==
    LET r == issue(ledger, deployed.vaccinebatch, mspid, vaccineName, batchNumber, quantity, manufacturer,
                   manufactureDate)
    IN  /\ deployed.contract = "vaccinebatch"
        /\ ledger' = r.ledger
        /\ last' = [op |-> "issue", key |-> BatchKey(batchNumber, manufacturer),
                    args |-> <<vaccineName, quantity, manufactureDate>>, ok |-> r.ok]
        /\ UNCHANGED deployed
        /\ UNCHANGED <<pending, client>>

\* buy transaction
Buy(batchNumber, manufacturer, currentOwner, newOwner, price, purchaseDateTime) ==
    LET r == buy(ledger, deployed.vaccinebatch, batchNumber, manufacturer, currentOwner, newOwner, price,
                 purchaseDateTime)
    IN  /\ deployed.contract = "vaccinebatch"
        /\ ledger' = r.ledger
        /\ last' = [op |-> "buy", key |-> <<>>, args |-> <<>>, ok |-> r.ok]
        /\ UNCHANGED deployed
        /\ UNCHANGED <<pending, client>>

\* ship transaction
Ship(batchNumber, manufacturer, shippingProvider, shipmentUUID) ==
    LET r == ship(ledger, deployed.vaccinebatch, batchNumber, manufacturer, shippingProvider, shipmentUUID)
    IN  /\ deployed.contract = "vaccinebatch"
        /\ ledger' = r.ledger
        /\ last' = [op |-> "ship", key |-> <<>>, args |-> <<>>, ok |-> r.ok]
        /\ UNCHANGED deployed
        /\ UNCHANGED <<pending, client>>

\* arrived transaction
Arrived(batchNumber, manufacturer, arrivalDate) ==
    LET r == arrived(ledger, deployed.vaccinebatch, batchNumber, manufacturer, arrivalDate)
    IN  /\ deployed.contract = "vaccinebatch"
        /\ ledger' = r.ledger
        /\ last' = [op |-> "arrived", key |-> <<>>, args |-> <<>>, ok |-> r.ok]
        /\ UNCHANGED deployed
        /\ UNCHANGED <<pending, client>>

InitBatch ==
    /\ ledger = <<>>
    /\ deployed \in {[contract |-> "vaccinebatch", rawmaterial |-> 2, shipment |-> "manufacturer", vaccinebatch |-> v] : v \in {1, 2}}
    /\ last = NoTx
    /\ pending = NoPending
    /\ client = NoClient

NextBatch ==
    \/ \E mspid \in Msps, n \in VaccineNames, b \in BatchNumbers, q \in Amounts, m \in Manufacturers, d \in Amounts :
            Issue(mspid, n, b, q, m, d)
    \/ \E b \in BatchNumbers, m \in Manufacturers, cur \in Purchasers, new \in Purchasers, price \in Amounts, t \in Times :
            Buy(b, m, cur, new, price, t)
    \/ \E b \in BatchNumbers, m \in Manufacturers, c \in Carriers, u \in Consignments :
            Ship(b, m, c, u)
    \/ \E b \in BatchNumbers, m \in Manufacturers, d \in Amounts :
            Arrived(b, m, d)

SpecBatch == InitBatch /\ [][NextBatch]_vars

(* C16: vaccine-batch ship is accepted only when the stored batch's        *)
(* currentState is WAREHOUSED; on a stored batch in any other state it     *)
(* fails and leaves shippingProvider, shipmentUUID and currentState        *)
(* unchanged.                                                              *)
C16_ShipOnlyWarehoused ==
    [][\A b \in BatchNumbers, m \in Manufacturers, c \in Carriers, u \in Consignments :
          (Ship(b, m, c, u) /\ BatchKey(b, m) \in DOMAIN ledger
                /\ Stored(BatchKey(b, m), "currentState") # WAREHOUSED)
              => /\ ~last'.ok
                 /\ \A f \in {"shippingProvider", "shipmentUUID", "currentState"} :
                        Attr(ledger'[BatchKey(b, m)], f) = Stored(BatchKey(b, m), f)]_vars

(* C17: vaccine-batch arrived is accepted only when the stored batch's     *)
(* currentState is SHIPPED; on a stored batch in any other state it fails  *)
(* and leaves currentState unchanged.                                      *)
C17_ArrivedOnlyShipped ==
    [][\A b \in BatchNumbers, m \in Manufacturers, d \in Amounts :
          (Arrived(b, m, d) /\ BatchKey(b, m) \in DOMAIN ledger
                /\ Stored(BatchKey(b, m), "currentState") # SHIPPED)
              => /\ ~last'.ok
                 /\ Attr(ledger'[BatchKey(b, m)], "currentState") = Stored(BatchKey(b, m), "currentState")]_vars

(* C18: vaccine-batch buy on a stored batch succeeds exactly when the      *)
(* stored purchaser equals currentOwner; on success it sets purchaser,     *)
(* purchaseDate and price to the arguments and leaves currentState,        *)
(* shippingProvider and shipmentUUID unchanged; otherwise it fails and the *)
(* stored batch is unchanged.                                              *)
C18_BuyFrame ==
    [][\A b \in BatchNumbers, m \in Manufacturers, cur \in Purchasers, new \in Purchasers, price \in Amounts, t \in Times :
          (Buy(b, m, cur, new, price, t) /\ BatchKey(b, m) \in DOMAIN ledger)
              => IF Stored(BatchKey(b, m), "purchaser") = cur
                 THEN /\ last'.ok
                      /\ Attr(ledger'[BatchKey(b, m)], "purchaser") = new
                      /\ Attr(ledger'[BatchKey(b, m)], "purchaseDate") = t
                      /\ Attr(ledger'[BatchKey(b, m)], "price") = price
                      /\ \A f \in {"currentState", "shippingProvider", "shipmentUUID"} :
                             Attr(ledger'[BatchKey(b, m)], f) = Stored(BatchKey(b, m), f)
                 ELSE ~last'.ok /\ ledger' = ledger]_vars

(* C19: every vaccine batch record in the store has currentState in        *)
(* {WAREHOUSED, SHIPPED, ARRIVED, ISSUED}, and the batch stored by a       *)
(* successful issue has currentState = WAREHOUSED.                         *)
C19_BatchStateValid ==
    /\ \A b \in BatchNumbers, m \in Manufacturers :
            BatchKey(b, m) \in DOMAIN ledger
                => Stored(BatchKey(b, m), "currentState") \in {WAREHOUSED, SHIPPED, ARRIVED, ISSUED}
    /\ (last.op = "issue" /\ last.ok) => Stored(last.key, "currentState") = WAREHOUSED

----------------------------------------------------------------------------
(* Vaccine dose                                                            *)

\* The instance methods the Vaccine class defines
VaccineMethods ==
    {"getVaccineUUID", "setVaccineUUID", "getBatchNum", "setBatchNum",
     "getExpirationDateTime", "setExpirationDateTime", "getManufacturer", "setManufacturer",
     "getIssuer", "setIssuer", "getRecipient", "setRecipient", "setOwnerMSP", "getOwnerMSP",
     "setReady", "setIssued", "setExpired", "isReady", "isIssued", "isExpired", "toBuffer"}

\* Vaccine.createInstance
VaccineCreateInstance(vaccineUUID, batchNum, expirationDateTime, manufacturer) ==
    VaccineConstructor(
        [f \in {"vaccineUUID", "batchNum", "expirationDateTime", "manufacturer"} |->
            CASE f = "vaccineUUID" -> vaccineUUID
              [] f = "batchNum" -> batchNum
              [] f = "expirationDateTime" -> expirationDateTime
              [] f = "manufacturer" -> manufacturer])

\* VaccineContract.issue; calling a method the Vaccine class does not define
\* throws a TypeError before the record is added
vaccineIssue(L, mspid, vaccineUUID, batchNum, manufacturer, issuer, recipient, expirationDateTime, issueDateTime) ==
    LET v0 == VaccineCreateInstance(vaccineUUID, batchNum, expirationDateTime, manufacturer)
        v1 == Put(v0, "currentState", VaccineISSUED)
        v2 == Put(v1, "issuer", issuer)
        v3 == Put(v2, "recipient", recipient)
    IN  IF ~ ({"setIssued", "setIssuer", "setRecipient", "setIssueDateTime"} \subseteq VaccineMethods)
        THEN Throw(L)
        ELSE LET v4 == Put(v3, "issueDateTime", issueDateTime)
                 v5 == Put(v4, "mspid", mspid)
             IN  Commit(addState(L, VaccineClass, v5))

VaccineKey(vaccineUUID) == createCompositeKey(VaccineClass, makeKey(<<vaccineUUID>>))

\* issue transaction of the vaccine contract
IssueVaccine(mspid, vaccineUUID, batchNum, manufacturer, issuer, recipient, expirationDateTime, issueDateTime) ==
    LET r == vaccineIssue(ledger, mspid, vaccineUUID, batchNum, manufacturer, issuer, recipient,
                          expirationDateTime, issueDateTime)
    IN  /\ deployed.contract = "vaccine"
        /\ ledger' = r.ledger
        /\ last' = [op |-> "issueVaccine", key |-> VaccineKey(vaccineUUID),
                    args |-> <<issuer, recipient, issueDateTime>>, ok |-> r.ok]
        /\ UNCHANGED deployed
        /\ UNCHANGED <<pending, client>>

InitVaccine ==
    /\ ledger = <<>>
    /\ deployed = [contract |-> "vaccine", rawmaterial |-> 2, shipment |-> "manufacturer", vaccinebatch |-> 1]
    /\ last = NoTx
    /\ pending = NoPending
    /\ client = NoClient

NextVaccine ==
    \E mspid \in Msps, u \in VaccineUUIDs, b \in BatchNumbers, m \in Manufacturers, i \in Purchasers,
       rcp \in Purchasers, e \in Times, t \in Times :
        IssueVaccine(mspid, u, b, m, i, rcp, e, t)

----------------------------------------------------------------------------
(* All contracts.  Each contract is installed as a chaincode of its own    *)
(* and a chaincode reads and writes only its own world state, so a         *)
(* behaviour follows the world state of one contract: a transaction is    *)
(* enabled on the world state of the contract that defines it.             *)

InitContracts == InitMaterial \/ InitShipment \/ InitBatch \/ InitVaccine

NextContracts == NextMaterial \/ NextShipment \/ NextBatch \/ NextVaccine

SpecContracts == InitContracts /\ [][NextContracts]_vars

(* C15: every transition operation (purchaseMaterial, addMaterial,         *)
(* vaccine-batch buy, ship, arrived, shipShipment, updateLocationTemp,     *)
(* shipmentArrival) invoked with a key at which no record exists fails and *)
(* leaves the store unchanged, so no record is created at that key.        *)
C15_MissingKeyFails ==
    [][/\ \A m \in Manufacturers, b \in BatchNumbers :
            MaterialKey(m, b) \notin DOMAIN ledger =>
                /\ \A mspid \in Msps, p \in Purchasers, price \in Amounts, t \in Times :
                        (last'.op = "purchaseMaterial" /\ PurchaseMaterial(mspid, m, b, p, price, t)) => (~last'.ok /\ ledger' = ledger)
                /\ \A t \in Times :
                        (last'.op = "addMaterial" /\ AddMaterial(m, b, t)) => (~last'.ok /\ ledger' = ledger)
       /\ \A b \in BatchNumbers, m \in Manufacturers :
            BatchKey(b, m) \notin DOMAIN ledger =>
                /\ \A cur \in Purchasers, new \in Purchasers, price \in Amounts, t \in Times :
                        (last'.op = "buy" /\ Buy(b, m, cur, new, price, t)) => (~last'.ok /\ ledger' = ledger)
                /\ \A c \in Carriers, u \in Consignments :
                        (last'.op = "ship" /\ Ship(b, m, c, u)) => (~last'.ok /\ ledger' = ledger)
                /\ \A d \in Amounts :
                        (last'.op = "arrived" /\ Arrived(b, m, d)) => (~last'.ok /\ ledger' = ledger)
       /\ \A u \in ShipmentUUIDs :
            ShipmentKey(u) \notin DOMAIN ledger =>
                /\ \A veh \in Amounts, src \in Locations, t \in Times, o \in Amounts, temp \in Amounts :
                        (last'.op = "shipShipment" /\ ShipShipment(u, veh, src, t, o, temp)) => (~last'.ok /\ ledger' = ledger)
                /\ \A t \in Times, loc \in Locations, temp \in Amounts :
                        (last'.op = "updateLocationTemp" /\ UpdateLocationTemp(u, t, loc, temp)) => (~last'.ok /\ ledger' = ledger)
                /\ \A t \in Times :
                        (last'.op = "shipmentArrival" /\ ShipmentArrival(u, t)) => (~last'.ok /\ ledger' = ledger)
      ]_vars

\* An addMaterial has just failed while manufacturer 1 has a stored material
\* and manufacturer 2 has none: addMaterial on a stored material commits, so the
\* failed call was made for the key that holds no record
C15_Witness ==
    /\ last.op = "addMaterial" /\ ~last.ok
    /\ MaterialKey(1, 1) \in DOMAIN ledger
    /\ MaterialKey(2, 1) \notin DOMAIN ledger

(* C20: vaccine-dose issue for a fresh vaccineUUID succeeds and stores a   *)
(* record with currentState = ISSUED and issuer, recipient and             *)
(* issueDateTime equal to the arguments.                                   *)
C20_IssueDose ==
    [][\A mspid \in Msps, u \in VaccineUUIDs, b \in BatchNumbers, m \in Manufacturers, i \in Purchasers,
         rcp \in Purchasers, e \in Times, t \in Times :
          (IssueVaccine(mspid, u, b, m, i, rcp, e, t) /\ VaccineKey(u) \notin DOMAIN ledger)
              => /\ last'.ok
                 /\ VaccineKey(u) \in DOMAIN ledger'
                 /\ Attr(ledger'[VaccineKey(u)], "currentState") = VaccineISSUED
                 /\ Attr(ledger'[VaccineKey(u)], "issuer") = i
                 /\ Attr(ledger'[VaccineKey(u)], "recipient") = rcp
                 /\ Attr(ledger'[VaccineKey(u)], "issueDateTime") = t]_vars

----------------------------------------------------------------------------
(* Properties of all contracts                                             *)

\* The record at key k after the step differs from the record before it
Written(k) == k \notin DOMAIN ledger \/ ledger'[k] # ledger[k]

C22_MspStamp ==
    [][/\ \A k \in DOMAIN ledger' : (last'.ok /\ Written(k)) => Attr(ledger'[k], "mspid") \in Msps
       /\ \A m \in Manufacturers, b \in BatchNumbers, mspid \in Msps :
            /\ \A n \in Names, q \in Amounts, d \in Amounts :
                    (CreateMaterial(mspid, n, b, q, m, d) /\ last'.ok)
                        => Attr(ledger'[MaterialKey(m, b)], "mspid") = mspid
            /\ \A p \in Purchasers, price \in Amounts, t \in Times :
                    (PurchaseMaterial(mspid, m, b, p, price, t) /\ last'.ok)
                        => Attr(ledger'[MaterialKey(m, b)], "mspid") = mspid
            /\ \A n \in VaccineNames, q \in Amounts, d \in Amounts :
                    (Issue(mspid, n, b, q, m, d) /\ last'.ok)
                        => Attr(ledger'[BatchKey(b, m)], "mspid") = mspid
      ]_vars

\* fromBuffer of the asset class whose namespace the key carries
FromBuffer(key, data) ==
    CASE key[1] = RawMaterialClass -> RawMaterialDeserialize(data)
      [] key[1] = ShipmentClass -> ShipmentDeserialize(deployed.shipment, data)
      [] key[1] = VaccineBatchClass -> VaccineBatchDeserialize(deployed.vaccinebatch, data)

(* C23: for every asset, fresh or fully populated, fromBuffer(x.toBuffer()) *)
(* has the same value as x for every attribute.  Every stored record is    *)
(* the toBuffer() of the asset x a transaction held when it wrote, with    *)
(* the attributes of x; reading it back must give each of them again.      *)
C23_RoundTrip ==
    \A k \in DOMAIN ledger :
        \A f \in DOMAIN ledger[k] :
            Attr(FromBuffer(k, ledger[k]), f) = ledger[k][f]

----------------------------------------------------------------------------
(* Overlapping purchases: simulation at invocation, validation at commit   *)

\* A purchase that writes the raw material without fetching it
purchaseReadsBlind(manufacturer, batchNumber) == {}

\* The keys purchaseMaterial reads: it fetches the raw material it writes
purchaseReads(manufacturer, batchNumber) == {MaterialKey(manufacturer, batchNumber)}

\* purchaseMaterial simulated against the world state at invocation: the
\* handler runs, its read set and its one write are held until commit
SubmitPurchase(c, mspid, manufacturer, batchNumber, purchaser, price, purchaseDateTime) ==
    LET r == IF deployed.rawmaterial = 1
             THEN purchaseMaterialV1(ledger, mspid, manufacturer, batchNumber, purchaser, price, purchaseDateTime)
             ELSE purchaseMaterialV2(ledger, mspid, manufacturer, batchNumber, purchaser, price, purchaseDateTime)
        key == MaterialKey(manufacturer, batchNumber)
        found == getRawMaterial(ledger, makeKey(<<manufacturer, batchNumber>>))
    IN  /\ deployed.contract = "rawmaterial"
        /\ pending[c] = <<>>
        /\ pending' = IF r.ok
                      THEN [pending EXCEPT ![c] =
                                <<[key |-> key, write |-> r.ledger[key],
                                   reads |-> purchaseReads(manufacturer, batchNumber),
                                   readPurchaser |-> Attr(found[1], "purchaser"),
                                   stale |-> FALSE, overlapped |-> FALSE]>>]
                      ELSE pending
        /\ last' = [op |-> "submitPurchase", key |-> <<>>, args |-> <<>>, ok |-> r.ok]
        /\ UNCHANGED <<ledger, deployed, client>>

\* Commit of a simulated purchase: rejected when its read set has changed
\* since the simulation, applied otherwise
CommitPurchase(c) ==
    /\ deployed.contract = "rawmaterial"
    /\ pending[c] # <<>>
    /\ LET tx == pending[c][1]
           valid == ~tx.stale
       IN  /\ ledger' = IF valid
                        THEN [k \in (DOMAIN ledger) \cup {tx.key} |-> IF k = tx.key THEN tx.write ELSE ledger[k]]
                        ELSE ledger
           /\ pending' = [Invalidate(pending, tx.key, valid) EXCEPT ![c] = <<>>]
           /\ last' = [op |-> "commitPurchase", key |-> <<>>, args |-> <<>>, ok |-> valid]
    /\ UNCHANGED <<deployed, client>>

InitConcurrent == InitMaterial

NextConcurrent ==
    \/ \E mspid \in Msps, b \in BatchNumbers, q \in Amounts, m \in Manufacturers, d \in Amounts :
            CreateMaterial(mspid, 1, b, q, m, d)
    \/ \E c \in Clients, mspid \in Msps, m \in Manufacturers, b \in BatchNumbers, price \in Amounts :
            SubmitPurchase(c, mspid, m, b, c, price, 1)
    \/ \E c \in Clients : CommitPurchase(c)

SpecConcurrent == InitConcurrent /\ [][NextConcurrent]_vars

(* C24: two purchaseMaterial transactions for the same raw material that   *)
(* both read purchaser = null and overlap cannot both commit: a purchase   *)
(* that read purchaser = null and was overlapped by a committed write to   *)
(* its raw material is rejected at commit and leaves the world state       *)
(* unchanged, so the stored purchaser stays that of the committed one; a   *)
(* purchase that commits stores its own purchaser.                         *)
C24_OneCommits ==
    [][\A c \in Clients :
          (pending[c] # <<>> /\ pending'[c] = <<>>) =>
              LET tx == pending[c][1]
              IN  /\ (tx.readPurchaser = NULL /\ tx.overlapped) =>
                          (~last'.ok /\ ledger' = ledger)
                  /\ last'.ok => ledger'[tx.key] = tx.write]_vars

\* The second of two overlapping purchases of raw material (1, 1) has been
\* rejected; the purchaser stored is that of the first
C24_Witness ==
    /\ last.op = "commitPurchase"
    /\ ~last.ok
    /\ Stored(MaterialKey(1, 1), "purchaser") = 1
    /\ pending = NoPending
    /\ client = NoClient

----------------------------------------------------------------------------
(* Queries: result iterators and the query utilities                       *)

MaxRevisions == 3                 \* longest key history an iterator returns

\* One revision of a key as the history iterator hands it out.  The two
\* shim releases name the fields differently; a deletion has an empty value.
HistoryItem(shim, txId, timestamp, isDelete, record) ==
    LET names == IF shim = 1 THEN {"tx_id", "timestamp", "is_delete", "value"}
                 ELSE {"txId", "timestamp", "isDelete", "value"}
    IN  [f \in names |->
            CASE f \in {"tx_id", "txId"} -> txId
              [] f = "timestamp" -> timestamp
              [] f \in {"is_delete", "isDelete"} -> IF isDelete THEN 1 ELSE JSFalse
              [] f = "value" -> IF isDelete THEN <<>> ELSE <<record>>]

\* One key/value pair as a state iterator hands it out
StateItem(key, record) ==
    [f \in {"key", "value"} |-> IF f = "key" THEN key ELSE <<record>>]

\* Composite keys in the order the state database returns them
KeyLess(k1, k2) == k1[2] < k2[2] \/ (k1[2] = k2[2] /\ k1[3] < k2[3])

RECURSIVE SortKeys(_)
SortKeys(S) ==
    IF S = {} THEN <<>>
    ELSE LET first == CHOOSE k \in S : \A j \in S : j = k \/ KeyLess(k, j)
         IN  <<first>> \o SortKeys(S \ {first})

\* stub.getHistoryForKey: the revisions of the key, oldest first.  deletes
\* says for each revision whether it is a deletion; revision i was written
\* by transaction i at time i.
getHistoryForKey(shim, L, ledgerKey, deletes) ==
    [i \in 1..Len(deletes) |->
        HistoryItem(shim, i, i, deletes[i],
                    IF ledgerKey \in DOMAIN L THEN L[ledgerKey] ELSE [class |-> RawMaterialClass])]

\* The histories a key can have in a world state: a key that holds a record
\* has at least one revision and its last is not a deletion; a key that
\* holds none was never written or was deleted last
Histories(L, ledgerKey) ==
    LET all == UNION {[1..n -> BOOLEAN] : n \in 0..MaxRevisions}
    IN  IF ledgerKey \in DOMAIN L
        THEN {h \in all : Len(h) > 0 /\ ~h[Len(h)]}
        ELSE {h \in all : Len(h) = 0 \/ h[Len(h)]}

\* stub.getStateByPartialCompositeKey: the records whose key starts with
\* the object type and the given attributes
getStateByPartialCompositeKey(L, objectType, attributes) ==
    LET prefix == createCompositeKey(objectType, attributes)
        keys == SortKeys({k \in DOMAIN L : Len(k) >= Len(prefix) /\ SubSeq(k, 1, Len(prefix)) = prefix})
    IN  [i \in 1..Len(keys) |-> StateItem(keys[i], L[keys[i]])]

\* stub.getQueryResult for a selector {field: value}: the records whose
\* attribute has that value
getQueryResult(L, selector) ==
    LET keys == SortKeys({k \in DOMAIN L : Attr(L[k], selector.field) = selector.value})
    IN  [i \in 1..Len(keys) |-> StateItem(keys[i], L[keys[i]])]

\* iterator.next(): the i-th call.  failAt is the call that is rejected (0:
\* none).  Shim 1 flags the last item done; shim 2 hands out every item
\* with done = false and then {done: true} without a value.  An empty
\* result is {done: true} without a value in both.
IteratorNext(shim, items, i, failAt) ==
    IF i = failAt THEN [thrown |-> TRUE, value |-> <<>>, done |-> FALSE]
    ELSE IF i <= Len(items)
         THEN [thrown |-> FALSE, value |-> <<items[i]>>, done |-> (shim = 1 /\ i = Len(items))]
         ELSE [thrown |-> FALSE, value |-> <<>>, done |-> TRUE]

\* A payload that is not JSON
Garbage == [text |-> "not JSON"]

\* JSON.parse of a payload inside try/catch: the parsed object, or, when
\* the parse throws, the payload's text as a string (the catch logs the
\* error and substitutes it)
TryParse(payload) == IF payload = Garbage THEN [string |-> payload.text] ELSE payload

\* The entry getAllResults builds from one item
Materialize(item, isHistory) ==
    IF isHistory
    THEN IF Attr(item, "is_delete") \notin {NULL, JSFalse}
         THEN [f \in {"TxId", "Timestamp", "IsDelete"} |->
                  CASE f = "TxId" -> Attr(item, "txId")
                    [] f = "Timestamp" -> Attr(item, "timestamp") * 1000
                    [] f = "IsDelete" -> 1]
         ELSE [f \in {"TxId", "Timestamp", "Value"} |->
                  CASE f = "TxId" -> Attr(item, "txId")
                    [] f = "Timestamp" -> Attr(item, "timestamp") * 1000
                    [] f = "Value" -> TryParse(item["value"][1])]
    ELSE [f \in {"Key", "Record"} |-> IF f = "Key" THEN item["key"] ELSE TryParse(item["value"][1])]

Rejected == [ok |-> FALSE, results |-> <<>>, closed |-> 0]

\* getAllResults: the loop from the i-th call of next() on
RECURSIVE getAllResultsLoop(_, _, _, _, _, _)
getAllResultsLoop(shim, items, failAt, isHistory, i, allResults) ==
    LET res == IteratorNext(shim, items, i, failAt)
    IN  IF res.thrown THEN [ok |-> FALSE, results |-> <<>>, closed |-> 0, calls |-> i]
        ELSE IF res.value = <<>>                    \* res.value.value of undefined
        THEN [ok |-> FALSE, results |-> <<>>, closed |-> 0, calls |-> i]
        ELSE LET item == res.value[1]
                 pushed == IF item["value"] # <<>>
                           THEN Append(allResults, Materialize(item, isHistory))
                           ELSE allResults
             IN  IF res.done
                 THEN [ok |-> TRUE, results |-> pushed, closed |-> 1, calls |-> i]
                 ELSE getAllResultsLoop(shim, items, failAt, isHistory, i + 1, pushed)

\* RawMaterialQueryUtils.getAllResults
getAllResults(shim, items, failAt, isHistory) ==
    getAllResultsLoop(shim, items, failAt, isHistory, 1, <<>>)

\* What a query leaves behind: the world state, the entries returned, the
\* reads issued to the state database, the iterators obtained and closed
QueryOutcome(L, r, reads, opened) ==
    [ok |-> r.ok, ledger |-> L, results |-> r.results,
     reads |-> reads, opened |-> opened, closed |-> r.closed]

\* JSON.stringify of an object, JSON.parse of a string: a string is either
\* the text of an object (null included) or not JSON at all
JSONstringify(ref) == [json |-> TRUE, text |-> ref]
JSONparse(str) ==
    IF str.json THEN [thrown |-> FALSE, value |-> str.text]
    ELSE [thrown |-> TRUE, value |-> <<>>]

\* The query strings a client sends to queryAdhoc
QueryStrings ==
    {[json |-> FALSE, text |-> <<>>],
     JSONstringify(NullRef),
     JSONstringify(Ref([selector |-> [field |-> "manufacturer", value |-> 1]]))}

\* getAssetHistory that stores a marker under the key it looked up
getAssetHistoryStored(shim, L, name, batchNumber, manufacturer, deletes, failAt) ==
    LET ledgerKey == createCompositeKey(name, <<manufacturer, batchNumber>>)
        resultsIterator == getHistoryForKey(shim, L, ledgerKey, deletes)
        touched == [k \in (DOMAIN L) \cup {ledgerKey} |-> IF k = ledgerKey THEN [class |-> name] ELSE L[k]]
    IN  QueryOutcome(touched, getAllResults(shim, resultsIterator, failAt, TRUE), 1, 1)

\* RawMaterialQueryUtils.getAssetHistory
getAssetHistory(shim, L, name, batchNumber, manufacturer, deletes, failAt) ==
    LET ledgerKey == createCompositeKey(name, <<manufacturer, batchNumber>>)
        resultsIterator == getHistoryForKey(shim, L, ledgerKey, deletes)
    IN  QueryOutcome(L, getAllResults(shim, resultsIterator, failAt, TRUE), 1, 1)

\* RawMaterialQueryUtils.queryKeyByPartial
queryKeyByPartial(shim, L, name, manufacturer, failAt) ==
    LET resultsIterator == getStateByPartialCompositeKey(L, name, <<manufacturer>>)
    IN  QueryOutcome(L, getAllResults(shim, resultsIterator, failAt, FALSE), 1, 1)

\* RawMaterialQueryUtils.getQueryResultForQueryString: the state database
\* parses the query string; the iterator is over the records it selects
getQueryResultForQueryString(shim, L, queryString, failAt) ==
    LET query == JSONparse(queryString)
    IN  IF query.thrown \/ query.value = NullRef
        THEN QueryOutcome(L, Rejected, 1, 0)
        ELSE LET resultsIterator == getQueryResult(L, query.value[1].selector)
             IN  QueryOutcome(L, getAllResults(shim, resultsIterator, failAt, FALSE), 1, 1)

\* RawMaterialQueryUtils.queryByManufacturer
queryByManufacturer(shim, L, manufacturer, failAt) ==
    LET queryString == [selector |-> [field |-> "manufacturer", value |-> manufacturer]]
    IN  getQueryResultForQueryString(shim, L, JSONstringify(Ref(queryString)), failAt)

\* RawMaterialQueryUtils.queryByName: the selector field is `name`
queryByName(shim, L, name, failAt) ==
    LET queryString == [selector |-> [field |-> "name", value |-> name]]
    IN  getQueryResultForQueryString(shim, L, JSONstringify(Ref(queryString)), failAt)

\* RawMaterialQueryUtils.queryByAdhoc: a null query is refused
queryByAdhoc(shim, L, queryString, failAt) ==
    IF queryString = NullRef
    THEN QueryOutcome(L, Rejected, 0, 0)
    ELSE getQueryResultForQueryString(shim, L, JSONstringify(queryString), failAt)

\* RawMaterialContract.queryHistory (the same in both copies)
queryHistory(shim, L, batchNumber, manufacturer, deletes, failAt) ==
    getAssetHistory(shim, L, RawMaterialClass, batchNumber, manufacturer, deletes, failAt)

\* RawMaterialContract.queryManufacturer: only the first copy has it
queryManufacturer(copy, shim, L, manufacturer, failAt) ==
    IF copy = 1
    THEN queryByManufacturer(shim, L, manufacturer, failAt)
    ELSE QueryOutcome(L, Rejected, 0, 0)

\* RawMaterialContract.queryName: only the first copy has it
queryName(copy, shim, L, name, failAt) ==
    IF copy = 1
    THEN queryByName(shim, L, name, failAt)
    ELSE QueryOutcome(L, Rejected, 0, 0)

\* RawMaterialContract.queryPartial.  The first copy runs the scan and then
\* reads the undeclared variable `results`; the second copy constructs
\* QueryUtils, which it never imports
queryPartial(copy, shim, L, prefix, failAt) ==
    IF copy = 1
    THEN LET partial_results == queryKeyByPartial(shim, L, RawMaterialClass, prefix, failAt)
         IN  [partial_results EXCEPT !.ok = FALSE, !.results = <<>>]
    ELSE QueryOutcome(L, Rejected, 0, 0)

\* queryAdhoc that hands the payload on without parsing it
queryAdhocUnparsed(copy, shim, L, queryString, failAt) ==
    getQueryResultForQueryString(shim, L, queryString, failAt)

\* RawMaterialContract.queryAdhoc.  The first copy parses the payload and
\* hands the object to queryByAdhoc; the second copy constructs QueryUtils,
\* which it never imports
queryAdhoc(copy, shim, L, queryString, failAt) ==
    IF copy = 1
    THEN LET querySelector == JSONparse(queryString)
         IN  IF querySelector.thrown
             THEN QueryOutcome(L, Rejected, 0, 0)
             ELSE queryByAdhoc(shim, L, querySelector.value, failAt)
    ELSE QueryOutcome(L, Rejected, 0, 0)

\* The last transaction of a query: its arguments and what it left behind
LastQuery(op, key, args, r) ==
    [op |-> op, key |-> key, args |-> args, ok |-> r.ok, results |-> r.results,
     reads |-> r.reads, opened |-> r.opened, closed |-> r.closed]

QueryOps == {"queryHistory", "queryPartial", "queryManufacturer", "queryName", "queryAdhoc"}

\* queryHistory transaction
QueryHistory(batchNumber, manufacturer, deletes, failAt) ==
    LET r == queryHistory(deployed.shim, ledger, batchNumber, manufacturer, deletes, failAt)
    IN  /\ deployed.contract = "rawmaterial"
        /\ deletes \in Histories(ledger, createCompositeKey(RawMaterialClass, <<manufacturer, batchNumber>>))
        /\ ledger' = r.ledger
        /\ last' = LastQuery("queryHistory", createCompositeKey(RawMaterialClass, <<manufacturer, batchNumber>>),
                             <<deletes, failAt>>, r)
        /\ UNCHANGED <<deployed, pending, client>>

\* queryPartial transaction
QueryPartial(prefix, failAt) ==
    LET r == queryPartial(deployed.rawmaterial, deployed.shim, ledger, prefix, failAt)
    IN  /\ deployed.contract = "rawmaterial"
        /\ ledger' = r.ledger
        /\ last' = LastQuery("queryPartial", <<>>, <<prefix, failAt>>, r)
        /\ UNCHANGED <<deployed, pending, client>>

\* queryManufacturer transaction
QueryManufacturer(manufacturer, failAt) ==
    LET r == queryManufacturer(deployed.rawmaterial, deployed.shim, ledger, manufacturer, failAt)
    IN  /\ deployed.contract = "rawmaterial"
        /\ ledger' = r.ledger
        /\ last' = LastQuery("queryManufacturer", <<>>, <<manufacturer, failAt>>, r)
        /\ UNCHANGED <<deployed, pending, client>>

\* queryName transaction
QueryName(name, failAt) ==
    LET r == queryName(deployed.rawmaterial, deployed.shim, ledger, name, failAt)
    IN  /\ deployed.contract = "rawmaterial"
        /\ ledger' = r.ledger
        /\ last' = LastQuery("queryName", <<>>, <<name, failAt>>, r)
        /\ UNCHANGED <<deployed, pending, client>>

\* queryAdhoc transaction
QueryAdhoc(queryString, failAt) ==
    LET r == queryAdhoc(deployed.rawmaterial, deployed.shim, ledger, queryString, failAt)
    IN  /\ deployed.contract = "rawmaterial"
        /\ ledger' = r.ledger
        /\ last' = LastQuery("queryAdhoc", <<>>, <<queryString, failAt>>, r)
        /\ UNCHANGED <<deployed, pending, client>>

QueryManufacturers == {1, 2}      \* manufacturers of the raw materials queried
QueryBatches == {1, 2}            \* their batch numbers

InitQuery ==
    /\ ledger = <<>>
    /\ deployed \in {[contract |-> "rawmaterial", rawmaterial |-> v, shipment |-> "manufacturer",
                      vaccinebatch |-> 1, shim |-> s] : v \in {1, 2}, s \in {1, 2}}
    /\ last = NoTx
    /\ pending = NoPending
    /\ client = NoClient

NextQuery ==
    \/ \E mspid \in Msps, b \in QueryBatches, q \in Amounts, m \in QueryManufacturers, d \in Amounts :
            CreateMaterial(mspid, 1, b, q, m, d)
    \/ \E b \in BatchNumbers, m \in QueryManufacturers, n \in 0..MaxRevisions :
            \E deletes \in [1..n -> BOOLEAN], failAt \in 0..(n + 1) :
                QueryHistory(b, m, deletes, failAt)
    \/ \E prefix \in QueryManufacturers, failAt \in 0..2 : QueryPartial(prefix, failAt)
    \/ \E m \in QueryManufacturers, failAt \in 0..2 : QueryManufacturer(m, failAt)
    \/ \E n \in Names, failAt \in 0..2 : QueryName(n, failAt)
    \/ \E queryString \in QueryStrings, failAt \in 0..2 : QueryAdhoc(queryString, failAt)

SpecQuery == InitQuery /\ [][NextQuery]_vars

\* The composite keys among the entries a query returned
ResultKeys == {last.results[i]["Key"] : i \in 1..Len(last.results)}

(* C25: for any set of raw materials created in any order, the prefix scan *)
(* by manufacturer (queryPartial, with no failure of the iterator) returns *)
(* exactly the keys of the raw materials created with that manufacturer    *)
(* as leading key part: none missing, none from another manufacturer.      *)
C25_PrefixScan ==
    (last.op = "queryPartial" /\ last.args[2] = 0) =>
        /\ last.ok
        /\ ResultKeys = {k \in DOMAIN ledger : k[1] = RawMaterialClass /\ k[2] = last.args[1]}

(* C26: for a key that has been created and then updated twice (three      *)
(* revisions, none a deletion, and no failure of the iterator),            *)
(* queryHistory returns exactly 3 revisions in commit order, each with a   *)
(* distinct TxId and non-decreasing Timestamp, none marked IsDelete; the   *)
(* key queried is the composite key under which the record is stored.      *)
C26_ThreeRevisions ==
    (last.op = "queryHistory" /\ last.args = <<(<<FALSE, FALSE, FALSE>>), 0>>) =>
        /\ last.ok
        /\ Len(last.results) = 3
        /\ \A i \in 1..Len(last.results) : last.results[i]["TxId"] = i
        /\ \A i, j \in 1..Len(last.results) :
              i < j => last.results[i]["Timestamp"] <= last.results[j]["Timestamp"]
        /\ \A i \in 1..Len(last.results) : "IsDelete" \notin DOMAIN last.results[i]
        /\ last.key \in DOMAIN ledger

(* C27: the history query (with no failure of the iterator) returns one    *)
(* entry for every revision of the key, deletions included, and every      *)
(* entry carries a marker saying whether it is a deletion.                 *)
C27_EveryRevisionMarked ==
    (last.op = "queryHistory" /\ last.args[2] = 0) =>
        /\ last.ok
        /\ Len(last.results) = Len(last.args[1])
        /\ \A i \in 1..Len(last.results) :
              /\ "IsDelete" \in DOMAIN last.results[i]
              /\ (last.results[i]["IsDelete"] = 1) <=> last.args[1][i]

(* C28: every query that obtains a result iterator closes it exactly once  *)
(* on every exit path of getAllResults: on normal completion, when         *)
(* iterator.next() fails, and when handling a single result raises an      *)
(* error.                                                                  *)
C28_IteratorClosed ==
    (last.op \in QueryOps /\ last.opened = 1) => last.closed = 1

(* C29: no query operation (history, prefix scan, exact-match, ad-hoc)     *)
(* writes to the store: the world state after any query, successful or    *)
(* failed, equals the world state before it.                               *)
C29_QueriesReadOnly ==
    [][last'.op \in QueryOps => ledger' = ledger]_vars

\* A history query has returned the three revisions of a stored raw material
C29_Witness ==
    /\ last.op = "queryHistory"
    /\ last.ok
    /\ Len(last.results) = 3
    /\ MaterialKey(1, 1) \in DOMAIN ledger
    /\ MaterialKey(2, 2) \in DOMAIN ledger

(* C30: queryAdhoc with a payload that is not parseable structured data    *)
(* fails with an error before any read is issued to the state database:    *)
(* getQueryResult is never called and no iterator is opened.               *)
C30_UnparseableAdhoc ==
    (last.op = "queryAdhoc" /\ ~last.args[1].json) =>
        /\ ~last.ok
        /\ last.reads = 0
        /\ last.opened = 0

\* The copy of the contract that parses the payload has refused a payload
\* that is not JSON, over a world state that holds a raw material
C30_Witness ==
    /\ last.op = "queryAdhoc"
    /\ ~last.args[1].json
    /\ ~last.ok
    /\ deployed.rawmaterial = 1
    /\ MaterialKey(1, 1) \in DOMAIN ledger

(* C31: each parameterized exact-match query returns exactly the stored    *)
(* records of its namespace whose attribute equals the argument:           *)
(* queryName(n), with no failure of the iterator, returns every raw        *)
(* material created with materialName = n.                                 *)
C31_ExactMatch ==
    (last.op = "queryName" /\ last.args[2] = 0) =>
        /\ last.ok
        /\ ResultKeys = {k \in DOMAIN ledger : Attr(ledger[k], "materialName") = last.args[1]}

----------------------------------------------------------------------------
(* getAllResults over any iterator                                         *)

MaxItems == 3                     \* longest result an iterator hands out

\* What an item of a result can hold: a record, an empty value (in a
\* history, a deletion), or a payload that is not JSON
ItemKinds == {"record", "empty", "garbage"}

\* The iterator over a result whose i-th item is of kind kinds[i]
IteratorOf(shim, kinds, isHistory) ==
    [i \in 1..Len(kinds) |->
        LET payload == IF kinds[i] = "garbage" THEN Garbage ELSE [class |-> RawMaterialClass]
        IN  IF isHistory
            THEN HistoryItem(shim, i, i, kinds[i] = "empty", payload)
            ELSE IF kinds[i] = "empty"
                 THEN Put(StateItem(<<RawMaterialClass, 1, i>>, payload), "value", <<>>)
                 ELSE StateItem(<<RawMaterialClass, 1, i>>, payload)]

\* getAllResults(iterator, isHistory) on such an iterator; failAt is the
\* call of next() that is rejected (0: none)
GetAllResults(kinds, failAt, isHistory) ==
    LET r == getAllResults(deployed.shim, IteratorOf(deployed.shim, kinds, isHistory), failAt, isHistory)
    IN  /\ deployed.contract = "iterator"
        /\ last' = [op |-> "getAllResults", key |-> <<>>, args |-> <<kinds, failAt, isHistory>>,
                    ok |-> r.ok, results |-> r.results, closed |-> r.closed, calls |-> r.calls]
        /\ UNCHANGED <<ledger, deployed, pending, client>>

InitIterator ==
    /\ ledger = <<>>
    /\ deployed \in {[contract |-> "iterator", rawmaterial |-> 1, shipment |-> "manufacturer",
                      vaccinebatch |-> 1, shim |-> s] : s \in {1, 2}}
    /\ last = NoTx
    /\ pending = NoPending
    /\ client = NoClient

NextIterator ==
    \E n \in 0..MaxItems :
        \E kinds \in [1..n -> ItemKinds], failAt \in 0..(n + 1), isHistory \in BOOLEAN :
            GetAllResults(kinds, failAt, isHistory)

SpecIterator == InitIterator /\ [][NextIterator]_vars

\* The entries of the last result that hold a string in place of a record
Substituted ==
    {i \in 1..Len(last.results) :
        \/ ("Record" \in DOMAIN last.results[i] /\ "string" \in DOMAIN last.results[i]["Record"])
        \/ ("Value" \in DOMAIN last.results[i] /\ "string" \in DOMAIN last.results[i]["Value"])}

(* C32: a query never swallows a decode error: when a record returned by   *)
(* the result iterator holds a payload that cannot be parsed, the query    *)
(* fails with an error instead of returning an entry with a substituted    *)
(* value.                                                                  *)
C32_DecodeErrorSurfaces ==
    (last.op = "getAllResults" /\ \E i \in 1..Len(last.args[1]) : last.args[1][i] = "garbage") =>
        /\ ~last.ok
        /\ Substituted = {}

----------------------------------------------------------------------------
(* Further properties of the contracts                                     *)

(* C33: a successful vaccine-batch ship sets shippingProvider and          *)
(* shipmentUUID to the arguments and currentState to SHIPPED, and leaves   *)
(* vaccineName, batchNumber, quantity, manufacturer, manufactureDate,      *)
(* purchaser, purchaseDate and price with the values they had in the store *)
(* before the call.                                                        *)
C33_ShipFrame ==
    [][\A b \in BatchNumbers, m \in Manufacturers, c \in Carriers, u \in Consignments :
          (last'.op = "ship" /\ Ship(b, m, c, u) /\ last'.ok) =>
              /\ Attr(ledger'[BatchKey(b, m)], "shippingProvider") = c
              /\ Attr(ledger'[BatchKey(b, m)], "shipmentUUID") = u
              /\ Attr(ledger'[BatchKey(b, m)], "currentState") = SHIPPED
              /\ \A f \in {"vaccineName", "batchNumber", "quantity", "manufacturer", "manufactureDate",
                           "purchaser", "purchaseDate", "price"} :
                     Attr(ledger'[BatchKey(b, m)], f) = Stored(BatchKey(b, m), f)]_vars

\* VaccineBatchContract.queryPartial: it constructs QueryUtils, which the
\* contract never imports, so it throws before any scan
batchQueryPartial(L, prefix) == QueryOutcome(L, Rejected, 0, 0)

\* queryPartial transaction of the vaccine-batch contract
BatchQueryPartial(prefix) ==
    LET r == batchQueryPartial(ledger, prefix)
    IN  /\ deployed.contract = "vaccinebatch"
        /\ ledger' = r.ledger
        /\ last' = LastQuery("queryPartial", <<>>, <<prefix>>, r)
        /\ UNCHANGED <<deployed, pending, client>>

InitBatchQuery == InitBatch

NextBatchQuery ==
    \/ NextBatch
    \/ \E prefix \in Manufacturers : BatchQueryPartial(prefix)

SpecBatchQuery == InitBatchQuery /\ [][NextBatchQuery]_vars

(* C34: the vaccine-batch queryPartial(prefix), called with a manufacturer *)
(* as its documentation says, returns the keys of the vaccine batches of   *)
(* that manufacturer (vaccine-batch keys are (batchNumber, manufacturer)). *)
C34_BatchPrefixScan ==
    last.op = "queryPartial" =>
        /\ last.ok
        /\ ResultKeys = {k \in DOMAIN ledger : k[1] = VaccineBatchClass /\ k[3] = last.args[1]}

----------------------------------------------------------------------------
(* The transaction clients.  main connects the gateway (awaiting each      *)
(* step), then without awaiting anything more creates the readline         *)
(* interface, registers the first question, processes the response and     *)
(* disconnects in its finally block.  A readline callback is run by the    *)
(* event loop, so only while main is suspended at an await or has          *)
(* returned; every await of main precedes the first question.              *)
(***************************************************************************)

\* Text typed at a prompt other than the transaction name
Answers == {1, 2, 3}

\* The transaction names a client accepts, and one it does not
TransactionNames ==
    [shipment |-> {"orderShipment", "shipShipment", "updateLocationTemp", "shipmentArrival", "other"},
     rawmaterial |-> {"purchaseMaterial", "addMaterial", "createMaterial", "other"}]

\* The transactions a client submits from the callback that reads the last
\* common answer; the others register further questions first
SubmittedAtOnce == [shipment |-> {"shipmentArrival"}, rawmaterial |-> {"addMaterial"}]

\* The number of answers read before the transaction name is dispatched on
CommonQuestions == [shipment |-> 2, rawmaterial |-> 3]

\* The client program at the entry of main
ClientStart(program) ==
    [program |-> program, pc |-> "start", gateway |-> "new", rl |-> "none",
     asking |-> FALSE, answers |-> <<>>, response |-> "undefined", steps |-> <<>>]

\* gateway.connect, getNetwork and getContract; when one of them rejects,
\* main lands in catch and then disconnects in finally
Connect(ok) ==
    /\ deployed.contract = "client"
    /\ client.pc = "start"
    /\ client' = IF ok
                 THEN [client EXCEPT !.pc = "connected", !.gateway = "connected"]
                 ELSE [client EXCEPT !.pc = "returned", !.gateway = "disconnected",
                                     !.steps = Append(@, "disconnect")]
    /\ UNCHANGED <<ledger, deployed, last, pending>>

\* readline.createInterface and the first rl.question
Ask ==
    /\ deployed.contract = "client"
    /\ client.pc = "connected"
    /\ client' = [client EXCEPT !.pc = "asked", !.rl = "open", !.asking = TRUE]
    /\ UNCHANGED <<ledger, deployed, last, pending>>

\* Shipment.fromBuffer(response) / RawMaterial.fromBuffer(response) on the
\* response variable as it is at that moment; an error lands in catch
Process ==
    /\ deployed.contract = "client"
    /\ client.pc = "asked"
    /\ client' = [client EXCEPT !.pc = "processed",
                                !.steps = Append(@, IF client.response = "undefined"
                                                    THEN "processUndefined" ELSE "process")]
    /\ UNCHANGED <<ledger, deployed, last, pending>>

\* finally: gateway.disconnect()
Disconnect ==
    /\ deployed.contract = "client"
    /\ client.pc = "processed"
    /\ client' = [client EXCEPT !.pc = "returned", !.gateway = "disconnected",
                                !.steps = Append(@, "disconnect")]
    /\ UNCHANGED <<ledger, deployed, last, pending>>

\* The callback of the pending question, run with the line typed.  The
\* callback of the last common question dispatches on the transaction name:
\* it submits, or registers further questions, or logs, and then closes the
\* readline interface, so that no further question is ever answered
Answer(a) ==
    /\ deployed.contract = "client"
    /\ client.pc = "returned"
    /\ client.rl = "open" /\ client.asking
    /\ IF Len(client.answers) + 1 < CommonQuestions[client.program]
       THEN client' = [client EXCEPT !.answers = Append(@, a)]
       ELSE IF client.answers[1] \in SubmittedAtOnce[client.program]
            THEN client' = [client EXCEPT !.answers = Append(@, a), !.response = "promise",
                                          !.steps = Append(@, "submit"),
                                          !.rl = "closed", !.asking = FALSE]
            ELSE client' = [client EXCEPT !.answers = Append(@, a),
                                          !.rl = "closed", !.asking = FALSE]
    /\ UNCHANGED <<ledger, deployed, last, pending>>

\* The input stream ends: the readline interface closes
EndOfInput ==
    /\ deployed.contract = "client"
    /\ client.pc = "returned"
    /\ client.rl = "open"
    /\ client' = [client EXCEPT !.rl = "closed", !.asking = FALSE]
    /\ UNCHANGED <<ledger, deployed, last, pending>>

\* The promise of submitTransaction settles
Settle(outcome) ==
    /\ deployed.contract = "client"
    /\ client.response = "promise"
    /\ client' = [client EXCEPT !.response = outcome]
    /\ UNCHANGED <<ledger, deployed, last, pending>>

InitClient ==
    /\ ledger = <<>>
    /\ deployed = [contract |-> "client", rawmaterial |-> 1, shipment |-> "distributor",
                   vaccinebatch |-> 1]
    /\ last = NoTx
    /\ pending = NoPending
    /\ client \in {ClientStart(program) : program \in {"shipment", "rawmaterial"}}

NextClient ==
    \/ \E ok \in BOOLEAN : Connect(ok)
    \/ Ask
    \/ Process
    \/ Disconnect
    \/ \E name \in TransactionNames.shipment \cup TransactionNames.rawmaterial :
            /\ client.answers = <<>>
            /\ name \in TransactionNames[client.program]
            /\ Answer(name)
    \/ \E a \in Answers : client.answers # <<>> /\ Answer(a)
    \/ EndOfInput
    \/ \E outcome \in {"resolved", "rejected"} : Settle(outcome)

SpecClient == InitClient /\ [][NextClient]_vars

(* C35: in the transaction client the steps happen in the documented       *)
(* order: the transaction is submitted, then its response is processed     *)
(* (fromBuffer on a defined response), then the gateway is disconnected;   *)
(* no transaction is submitted after gateway.disconnect() has run.         *)
C35_DocumentedOrder ==
    client.program # "none" =>
        /\ \A i \in 1..Len(client.steps) : client.steps[i] # "processUndefined"
        /\ \A i, j \in 1..Len(client.steps) :
              (i < j /\ client.steps[i] = "disconnect") => client.steps[j] # "submit"
        /\ \A j \in 1..Len(client.steps) :
              client.steps[j] = "process" => \E i \in 1..(j - 1) : client.steps[i] = "submit"


----------------------------------------------------------------------------
(* Invariants of the stored records                                        *)

\* The key attributes of the record a world state L holds at key k are the
\* parts of k
KeyAttributesMatch(L, k) ==
    /\ k[1] = RawMaterialClass =>
          /\ Attr(L[k], "manufacturer") = k[2]
          /\ Attr(L[k], "batchNumber") = k[3]
    /\ k[1] = ShipmentClass => Attr(L[k], "shipmentUUID") = k[2]

(* C36: the record stored under a composite key has key attributes equal   *)
(* to that key (a raw material at (m, b) has manufacturer m and batch      *)
(* number b, a shipment at u has shipmentUUID u), and no transition        *)
(* changes a key attribute of a stored record.                             *)
C36_KeyAttributes ==
    [][/\ \A k \in DOMAIN ledger' : KeyAttributesMatch(ledger', k)
       /\ \A k \in DOMAIN ledger :
             /\ k \in DOMAIN ledger'
             /\ k[1] = RawMaterialClass =>
                   /\ Attr(ledger'[k], "manufacturer") = Attr(ledger[k], "manufacturer")
                   /\ Attr(ledger'[k], "batchNumber") = Attr(ledger[k], "batchNumber")
             /\ k[1] = ShipmentClass =>
                   Attr(ledger'[k], "shipmentUUID") = Attr(ledger[k], "shipmentUUID")]_vars

\* A purchased raw material and an arrived shipment are stored, each written
\* back by a transition after its creation
C36_Witness ==
    \/ /\ last.op = "purchaseMaterial" /\ last.ok
       /\ \E k \in DOMAIN ledger : k[1] = RawMaterialClass /\ Attr(ledger[k], "purchaser") # NULL
    \/ /\ last.op = "shipmentArrival" /\ last.ok
       /\ \E k \in DOMAIN ledger : k[1] = ShipmentClass /\ Attr(ledger[k], "currentState") = ARRIVEDDEST


\* The raw material records of the world state
StoredMaterials == {k \in DOMAIN ledger : k[1] = RawMaterialClass}

(* C37: a stored raw material has purchaser, purchaseDate and price either *)
(* all null or all non-null, given non-null arguments to purchaseMaterial: *)
(* they are only ever set together.                                        *)
C37_PurchaseFieldsTogether ==
    \A k \in StoredMaterials :
        \/ /\ Attr(ledger[k], "purchaser") = NULL
           /\ Attr(ledger[k], "purchaseDate") = NULL
           /\ Attr(ledger[k], "price") = NULL
        \/ /\ Attr(ledger[k], "purchaser") # NULL
           /\ Attr(ledger[k], "purchaseDate") # NULL
           /\ Attr(ledger[k], "price") # NULL

\* One raw material is stored as purchased while another, written back by
\* addMaterial, holds none of the three
C37_Witness ==
    /\ last.op = "addMaterial" /\ last.ok
    /\ \E k \in StoredMaterials :
          /\ Attr(ledger[k], "dateMixedIn") # NULL
          /\ Attr(ledger[k], "purchaser") = NULL
    /\ \E k \in StoredMaterials :
          /\ Attr(ledger[k], "purchaser") # NULL
          /\ Attr(ledger[k], "purchaseDate") # NULL
          /\ Attr(ledger[k], "price") # NULL


(* C38: a stored shipment's currentState is consistent with its dates:     *)
(* currentState = LEFTSOURCE implies shipDateTime is non-null,             *)
(* currentState = ARRIVEDDEST implies arrivalDateTime is non-null, and     *)
(* currentState is unset exactly when both dates are null.                 *)
C38_StateMatchesDates ==
    \A k \in DOMAIN ledger :
        k[1] = ShipmentClass =>
            /\ Attr(ledger[k], "currentState") = LEFTSOURCE => Attr(ledger[k], "shipDateTime") # NULL
            /\ Attr(ledger[k], "currentState") = ARRIVEDDEST => Attr(ledger[k], "arrivalDateTime") # NULL
            /\ Attr(ledger[k], "currentState") = NULL <=>
                  (Attr(ledger[k], "shipDateTime") = NULL /\ Attr(ledger[k], "arrivalDateTime") = NULL)


(* C39: getAllResults terminates for every iterator that reports done      *)
(* after finitely many next() calls, including an empty result set and a   *)
(* final next() that returns done with no value; it returns one entry, in  *)
(* iterator order, for each element whose value is non-empty, and makes no *)
(* next() call after done was reported.                                    *)
C39_ReturnsEveryEntry ==
    (last.op = "getAllResults" /\ last.args[2] = 0) =>
        LET kinds == last.args[1]
            filled == {i \in 1..Len(kinds) : kinds[i] # "empty"}
        IN  /\ last.ok
            /\ Len(last.results) = Cardinality(filled)
            /\ ~last.args[3] =>
                  \A i, j \in 1..Len(last.results) :
                      i < j => last.results[i]["Key"][3] < last.results[j]["Key"][3]
            /\ last.calls <= Len(kinds) + 1

====
